---- MODULE Spec2Model ----
(***************************************************************************)
(* Model of the svitlo_live coordinator (coordinator.py): the poll         *)
(* (_async_update_data), the payload builder, the half-hour parser and the *)
(* precise-refresh scheduler with its single-shot timer.                    *)
(*                                                                          *)
(* Time is the local wall clock in seconds since 00:00 of day 0; a date is  *)
(* a day number.  Day 0 is 2024-12-30, so that the days the model visits    *)
(* lie on both sides of a month and year boundary.  The local zone has a    *)
(* fixed offset (no DST change inside the horizon), so an aware datetime    *)
(* and its UTC form denote the same instant: as_utc keeps the number.       *)
(*                                                                          *)
(* Python's None is modelled per type: <<>> for an absent string/tuple,     *)
(* NoInstant for an absent instant or index, some |-> FALSE for an absent   *)
(* pack or payload.  Python list index i is TLA+ index i + 1.               *)
(***************************************************************************)
EXTENDS Integers, Sequences, FiniteSets, TLC

VARIABLES
    clock,          \* dt_util.now(), seconds
    pc,             \* "idle" or "fetching": position of _async_update_data; "stopped" once unloaded
    polled_at,      \* local polled_at of the poll in flight
    today_cached,   \* self._today_pack_cached
    tomorrow_cached,\* self._tomorrow_pack_cached
    data,           \* self.data: the published status
    timers,         \* pending point-in-time listeners of the event loop
    unsub_precise,  \* self._unsub_precise: id of the listener it cancels
    refresh_req,    \* a refresh was requested and no poll began since
    ev,             \* the last step taken and its outcome
    npolls,         \* polls begun
    nticks,         \* clock advances taken
    fn_arg,         \* the arguments of a function applied on its own
    fn_res          \* <<its result>>, <<>> before it is applied

vars == <<clock, pc, polled_at, today_cached, tomorrow_cached, data, timers,
          unsub_precise, refresh_req, ev, npolls, nticks, fn_arg, fn_res>>

\* the variables the coordinator's own steps leave alone
fn_vars == <<fn_arg, fn_res>>

----------------------------------------------------------------------------
(* Bounds of the exploration *)

MaxPolls == 2
MaxTicks == 1

(* Program constants *)

FetchTimeout == 20
HoursPerDay == 24
SlotMinutes == 30

SlotSeconds == SlotMinutes * 60
DaySeconds == 24 * 3600
NoInstant == 0 - 1

----------------------------------------------------------------------------
(* Wall clock and calendar *)

DateOf(t) == t \div DaySeconds
HourOf(t) == (t % DaySeconds) \div 3600
MinuteOf(t) == (t % 3600) \div 60
SecondOf(t) == t % 60

\* The calendar window of the model: 2024-12 and 2025-01.
DaysIn(y, m) == IF (y = 2024 /\ m = 12) \/ (y = 2025 /\ m = 1) THEN 31 ELSE 0

ValidYMD(s) ==
    /\ Len(s) = 3
    /\ s[3] >= 1
    /\ s[3] <= DaysIn(s[1], s[2])

\* date.isoformat(): the day number as <<year, month, day>>
isoformat(d) == IF d <= 1 THEN <<2024, 12, 30 + d>> ELSE <<2025, 1, d - 1>>

\* date from <<year, month, day>>; defined on valid dates only
DayNumber(s) == IF s[1] = 2024 THEN s[3] - 30 ELSE s[3] + 1

\* datetime.fromisoformat(s).date()
fromisoformat(s) ==
    IF ValidYMD(s) THEN [raised |-> FALSE, day |-> DayNumber(s)]
                   ELSE [raised |-> TRUE, day |-> 0]

\* datetime.strptime(date_str, "%d.%m.%Y").date(); date_str is <<dd, mm, yyyy>>
strptime(date_str) ==
    IF Len(date_str) = 3
    THEN fromisoformat(<<date_str[3], date_str[2], date_str[1]>>)
    ELSE [raised |-> TRUE, day |-> 0]

\* the text of a table header for the day d: "DD.MM.YYYY"
DateLabel(d) == LET s == isoformat(d) IN <<s[3], s[2], s[1]>>

----------------------------------------------------------------------------
(* Parsing: hour classes to half-hours *)

CLASS_MAP == {"on", "off", "f4", "f5"}

\* variant: the two half-outage classes are exchanged
halfhours_from_hour_class_Swapped(cls) ==
    IF cls = "on" THEN <<"on", "on">>
    ELSE IF cls = "off" THEN <<"off", "off">>
    ELSE IF cls = "f4" THEN <<"on", "off">>
    ELSE IF cls = "f5" THEN <<"off", "on">>
    ELSE <<"on", "on">>

\* on/off/f4/f5 to the states of the two half-hours
halfhours_from_hour_class(cls) ==
    IF cls = "on" THEN <<"on", "on">>
    ELSE IF cls = "off" THEN <<"off", "off">>
    ELSE IF cls = "f4" THEN <<"off", "on">>
    ELSE IF cls = "f5" THEN <<"on", "off">>
    ELSE <<"on", "on">>

\* cells[:24]
TakeCells(cells) ==
    IF Len(cells) /= HoursPerDay
    THEN SubSeq(cells, 1, IF Len(cells) < HoursPerDay THEN Len(cells) ELSE HoursPerDay)
    ELSE cells

\* next((c for c in td.get("class", []) if c in CLASS_MAP), "on")
CellClass(c) == IF c \in CLASS_MAP THEN c ELSE "on"

HourClasses(cells) == [i \in 1..Len(cells) |-> CellClass(cells[i])]

\* for cls in hour_classes: halfhours.extend(halfhours_from_hour_class(cls))
HalfHours(hc) ==
    [k \in 1..(2 * Len(hc)) |->
        halfhours_from_hour_class(hc[(k + 1) \div 2])[IF k % 2 = 1 THEN 1 ELSE 2]]

NoPack == [some |-> FALSE, day |-> 0, hc |-> <<>>, hh |-> <<>>]

\* parse_table(table): table is [nrows, date_str, cells]
parse_table(table) ==
    IF table.nrows < 2 THEN [raised |-> TRUE, pack |-> NoPack]
    ELSE LET d == strptime(table.date_str) IN
         IF d.raised THEN [raised |-> TRUE, pack |-> NoPack]
         ELSE LET hc == HourClasses(TakeCells(table.cells)) IN
              [raised |-> FALSE,
               pack |-> [some |-> TRUE, day |-> d.day, hc |-> hc, hh |-> HalfHours(hc)]]

\* meta name="last-modified": <<>> when absent, <<"text", n>> for text that is
\* not an ISO local time, <<"local", t>> for an ISO local time, which is
\* rewritten as the UTC instant
LastModified(meta) ==
    IF meta = <<>> THEN <<>>
    ELSE IF meta[1] = "local" THEN <<"utc", meta[2]>>
    ELSE meta

\* parse_queue(html, queue_id): html is [has_div, tables, meta]
parse_queue(doc) ==
    LET failed == [raised |-> TRUE, today |-> NoPack, tomorrow |-> NoPack, slm |-> <<>>]
    IN
    IF ~doc.has_div THEN failed
    ELSE IF Len(doc.tables) = 0 THEN failed
    ELSE LET t1 == parse_table(doc.tables[1]) IN
         IF t1.raised THEN failed
         ELSE LET t2 == IF Len(doc.tables) > 1 THEN parse_table(doc.tables[2])
                        ELSE [raised |-> FALSE, pack |-> NoPack] IN
              IF t2.raised THEN failed
              ELSE [raised |-> FALSE, today |-> t1.pack, tomorrow |-> t2.pack,
                    slm |-> LastModified(doc.meta)]

----------------------------------------------------------------------------
(* Transition calculator *)

\* for step in range(1, n + 1): the first j = (idx + step) % n whose state differs
RECURSIVE ScanChange(_, _, _, _)
ScanChange(series, idx, cur, step) ==
    IF step > Len(series) THEN NoInstant
    ELSE LET j == (idx + step) % Len(series) IN
         IF series[j + 1] /= cur THEN j
         ELSE ScanChange(series, idx, cur, step + 1)

\* variant: the scan stops at the end of the day instead of wrapping around
next_change_idx_NoWrap(series, idx) ==
    LET later == {j \in (idx + 1)..(Len(series) - 1) : series[j + 1] /= series[idx + 1]}
    IN IF later = {} THEN NoInstant ELSE CHOOSE j \in later : \A k \in later : j <= k

\* next_change_idx(series, idx); requires idx < len(series)
next_change_idx(series, idx) == ScanChange(series, idx, series[idx + 1], 1)

\* next((i for i, s in enumerate(seq2) if s in target_states), None), from i on
RECURSIVE FirstIn(_, _, _)
FirstIn(seq2, target_states, i) ==
    IF i >= Len(seq2) THEN NoInstant
    ELSE IF seq2[i + 1] \in target_states THEN i
    ELSE FirstIn(seq2, target_states, i + 1)

\* variant: the offset is added to the wall clock as it is read
find_next_at_Unaligned(target_states, today_half, idx, tomorrow_pack, now) ==
    LET seq == SubSeq(today_half, idx + 2, Len(today_half))
                 \o SubSeq(today_half, 1, idx + 1)
        seq2 == IF tomorrow_pack.some THEN seq \o tomorrow_pack.hh ELSE seq
        pos == FirstIn(seq2, target_states, 0)
    IN IF pos = NoInstant THEN NoInstant
       ELSE now + (pos + 1) * SlotSeconds

\* find_next_at(target_states, base_date, today_half, idx, tomorrow_pack) at now
find_next_at(target_states, today_half, idx, tomorrow_pack, now) ==
    LET seq == SubSeq(today_half, idx + 2, Len(today_half))
                 \o SubSeq(today_half, 1, idx + 1)
        seq2 == IF tomorrow_pack.some THEN seq \o tomorrow_pack.hh ELSE seq
        pos == FirstIn(seq2, target_states, 0)
    IN IF pos = NoInstant THEN NoInstant
       ELSE LET now_local == now - SecondOf(now)
                minute_block_start == IF MinuteOf(now_local) < 30 THEN 0 ELSE 30
                base_aligned == now_local - MinuteOf(now_local) * 60
                                  + minute_block_start * 60
            IN base_aligned + (pos + 1) * SlotSeconds

\* variant: the slot of the wall clock whatever the date of the table
SlotIndex_NoDateCheck(today_date, now) ==
    HourOf(now) * 2 + (IF MinuteOf(now) >= 30 THEN 1 ELSE 0)

\* index of the current half-hour slot
SlotIndex(today_date, now) ==
    IF DateOf(now) /= today_date THEN 0
    ELSE HourOf(now) * 2 + (IF MinuteOf(now) >= 30 THEN 1 ELSE 0)

\* "HH:MM" of a slot index, as <<hour, minute>>
HHMM(nci) == <<nci \div 2, IF nci % 2 /= 0 THEN 30 ELSE 0>>

NoData ==
    [some |-> FALSE, date |-> <<>>, now_status |-> "", now_halfhour_index |-> 0,
     next_change_at |-> <<>>, today_24h_classes |-> <<>>, today_48half |-> <<>>,
     updated |-> NoInstant, source |-> "", source_last_modified |-> <<>>,
     next_on_at |-> NoInstant, next_off_at |-> NoInstant,
     has_tomorrow |-> FALSE, tomorrow_date |-> <<>>,
     tomorrow_24h_classes |-> <<>>, tomorrow_48half |-> <<>>]

\* halfhours[idx] raises IndexError when the grid is too short
BuildRaises(today_pack, now) ==
    SlotIndex(today_pack.day, now) >= Len(today_pack.hh)

\* _build_payload(...) at now; defined when it does not raise
build_payload(today_pack, tomorrow_pack, updated, source_url, slm, now) ==
    LET idx == SlotIndex(today_pack.day, now)
        halfhours == today_pack.hh
        nci == next_change_idx(halfhours, idx)
    IN [some |-> TRUE,
        date |-> isoformat(today_pack.day),
        now_status |-> halfhours[idx + 1],
        now_halfhour_index |-> idx,
        next_change_at |-> IF nci /= NoInstant THEN HHMM(nci) ELSE <<>>,
        today_24h_classes |-> today_pack.hc,
        today_48half |-> halfhours,
        updated |-> updated,
        source |-> source_url,
        source_last_modified |-> slm,
        next_on_at |-> find_next_at({"on"}, halfhours, idx, tomorrow_pack, now),
        next_off_at |-> find_next_at({"off"}, halfhours, idx, tomorrow_pack, now),
        has_tomorrow |-> tomorrow_pack.some,
        tomorrow_date |-> IF tomorrow_pack.some THEN isoformat(tomorrow_pack.day) ELSE <<>>,
        tomorrow_24h_classes |-> tomorrow_pack.hc,
        tomorrow_48half |-> tomorrow_pack.hh]

----------------------------------------------------------------------------
(* Precise scheduler *)

\* variant: the handle is dropped without cancelling its listener
CancelListener_Keep(tm, unsub) == tm

\* self._unsub_precise(): remove the listener the handle stands for
CancelListener(tm, unsub) == {t \in tm : t.id /= unsub}

\* variant: a candidate that is not ahead of the clock is kept as it is
Candidate_NoRollover(date_iso, hhmm, now) ==
    LET base == fromisoformat(date_iso) IN
    IF base.raised THEN [raised |-> TRUE, at |-> NoInstant]
    ELSE IF Len(hhmm) /= 2 THEN [raised |-> TRUE, at |-> NoInstant]
    ELSE IF ~(hhmm[1] \in 0..23 /\ hhmm[2] \in 0..59)
         THEN [raised |-> TRUE, at |-> NoInstant]
    ELSE [raised |-> FALSE,
          at |-> base.day * DaySeconds + hhmm[1] * 3600 + hhmm[2] * 60]

\* the body of the try block up to the candidate instant
Candidate(date_iso, hhmm, now) ==
    LET base == fromisoformat(date_iso) IN
    IF base.raised THEN [raised |-> TRUE, at |-> NoInstant]
    ELSE IF Len(hhmm) /= 2 THEN [raised |-> TRUE, at |-> NoInstant]
    ELSE IF ~(hhmm[1] \in 0..23 /\ hhmm[2] \in 0..59)
         THEN [raised |-> TRUE, at |-> NoInstant]
    ELSE LET candidate == base.day * DaySeconds + hhmm[1] * 3600 + hhmm[2] * 60 IN
         [raised |-> FALSE,
          at |-> IF candidate <= now THEN candidate + DaySeconds ELSE candidate]

\* variant: the exception leaves _schedule_precise_refresh
OnSchedulingError_Reraise == "raised"

\* except Exception: log, do not re-raise
OnSchedulingError == "caught"

\* variant: without a next change it returns before the previous listener is cancelled
schedule_precise_refresh_EarlyReturn(d, tm, unsub, now, id) ==
    LET tm0 == IF unsub /= NoInstant THEN CancelListener(tm, unsub) ELSE tm
        cancelled == tm0 /= tm
    IN
    IF d.next_change_at = <<>> \/ d.date = <<>>
    THEN [timers |-> tm, unsub |-> unsub, outcome |-> "idle", cancelled |-> FALSE]
    ELSE LET c == Candidate(d.date, d.next_change_at, now) IN
         IF c.raised
         THEN [timers |-> tm0, unsub |-> NoInstant, outcome |-> OnSchedulingError,
               cancelled |-> cancelled]
         ELSE [timers |-> tm0 \cup {[id |-> id, at |-> c.at]}, unsub |-> id,
               outcome |-> "armed", cancelled |-> cancelled]

\* _schedule_precise_refresh(data) at now; id names the listener it registers
schedule_precise_refresh(d, tm, unsub, now, id) ==
    LET tm0 == IF unsub /= NoInstant THEN CancelListener(tm, unsub) ELSE tm
        cancelled == tm0 /= tm
    IN
    IF d.next_change_at = <<>> \/ d.date = <<>>
    THEN [timers |-> tm0, unsub |-> NoInstant, outcome |-> "idle", cancelled |-> cancelled]
    ELSE LET c == Candidate(d.date, d.next_change_at, now) IN
         IF c.raised
         THEN [timers |-> tm0, unsub |-> NoInstant, outcome |-> OnSchedulingError,
               cancelled |-> cancelled]
         ELSE [timers |-> tm0 \cup {[id |-> id, at |-> c.at]}, unsub |-> id,
               outcome |-> "armed", cancelled |-> cancelled]

----------------------------------------------------------------------------
(* Input documents *)

Cell(kind, h) ==
    IF kind = "morning" THEN (IF h < 6 THEN "off" ELSE "on")
    ELSE IF kind = "blip" THEN (IF h = 3 THEN "zz" ELSE IF h = 6 THEN "f4" ELSE "on")
    ELSE IF kind = "mixed" THEN
        (IF h = 0 THEN "f5" ELSE IF h = 1 THEN "zz" ELSE IF h = 2 THEN "off"
         ELSE IF h = 5 THEN "f4" ELSE IF h = 20 THEN "f5" ELSE "on")
    ELSE IF kind = "tail" THEN (IF h < 6 \/ h >= HoursPerDay THEN "off" ELSE "on")
    ELSE "on"

Row(kind, n) == [i \in 1..n |-> Cell(kind, i - 1)]

BadDateLabel == <<32, 12, 2024>>

Table(d, r) == [nrows |-> 2, date_str |-> DateLabel(d), cells |-> r]

BadDateTable == [nrows |-> 2, date_str |-> BadDateLabel, cells |-> Row("morning", HoursPerDay)]

Doc(tables, meta) == [has_div |-> TRUE, tables |-> tables, meta |-> meta]

NoDoc == [has_div |-> FALSE, tables |-> <<>>, meta |-> <<>>]

\* documents with one table: dated with the wall-clock day or still with the
\* day before; rows of 24, fewer and more cells
SingleDocs(today) ==
    {Doc(<<Table(today, r)>>, <<>>) :
        r \in {Row("allon", HoursPerDay), Row("morning", HoursPerDay),
               Row("blip", HoursPerDay), Row("mixed", HoursPerDay),
               Row("mixed", 3), Row("tail", HoursPerDay + 2)}}
    \cup {Doc(<<Table(today - 1, r)>>, <<>>) :
        r \in {Row("morning", HoursPerDay), Row("mixed", 3)}}
    \cup {Doc(<<Table(today, Row("blip", HoursPerDay))>>, m) :
        m \in {<<"local", today * DaySeconds>>, <<"text", 0>>}}

\* documents with the table of the next day
PairDocs(today) ==
    {Doc(<<Table(today, r), Table(today + 1, u)>>, <<>>) :
        r \in {Row("allon", HoursPerDay), Row("morning", HoursPerDay)},
        u \in {Row("morning", HoursPerDay), Row("mixed", 3)}}
    \cup {Doc(<<Table(today, Row("blip", HoursPerDay)),
                 Table(today + 1, Row("morning", HoursPerDay))>>, <<>>)}

\* documents parse_queue rejects
BadDocs(today) ==
    {NoDoc,
     Doc(<<>>, <<>>),
     Doc(<<[nrows |-> 1, date_str |-> DateLabel(today), cells |-> <<>>]>>, <<>>),
     Doc(<<BadDateTable>>, <<>>),
     Doc(<<Table(today, Row("morning", HoursPerDay)), BadDateTable>>, <<>>)}

Docs(now) == SingleDocs(DateOf(now)) \cup PairDocs(DateOf(now)) \cup BadDocs(DateOf(now))

----------------------------------------------------------------------------
(* The coordinator as a state machine *)

Start == 2 * DaySeconds + 5 * 3600
TickSteps == {7, 5400}
SourceUrl == "https://svitlo.live/region"

\* the cell rows of the tables of a document, as fetched
RawRows(doc) == [i \in 1..Len(doc.tables) |-> doc.tables[i].cells]

Event(kind, sched, cancelled, rows) ==
    [kind |-> kind, sched |-> sched, cancelled |-> cancelled, rows |-> rows]

Init ==
    /\ clock = Start
    /\ pc = "idle"
    /\ polled_at = NoInstant
    /\ today_cached = NoPack
    /\ tomorrow_cached = NoPack
    /\ data = NoData
    /\ timers = {}
    /\ unsub_precise = NoInstant
    /\ refresh_req = FALSE
    /\ ev = Event("init", "none", FALSE, <<>>)
    /\ npolls = 0
    /\ nticks = 0
    /\ fn_arg = <<>>
    /\ fn_res = <<>>

\* time passes; a pending listener runs at its instant, a fetch ends by its timeout
Tick(d) ==
    /\ nticks < MaxTicks
    /\ \A t \in timers : clock + d <= t.at
    /\ pc = "fetching" => clock + d - polled_at <= FetchTimeout
    /\ clock' = clock + d
    /\ nticks' = nticks + 1
    /\ ev' = Event("tick", "none", FALSE, <<>>)
    /\ UNCHANGED <<pc, polled_at, today_cached, tomorrow_cached, data, timers,
                   unsub_precise, refresh_req, npolls>>
    /\ UNCHANGED fn_vars

\* _async_update_data up to the await of the fetch
PollBegin ==
    /\ pc = "idle"
    /\ npolls < MaxPolls
    /\ pc' = "fetching"
    /\ polled_at' = clock
    /\ npolls' = npolls + 1
    /\ refresh_req' = FALSE
    /\ ev' = Event("poll_begin", "none", FALSE, <<>>)
    /\ UNCHANGED <<clock, today_cached, tomorrow_cached, data, timers,
                   unsub_precise, nticks>>
    /\ UNCHANGED fn_vars

\* variant: the previous timer is cancelled before the fetch result is known
FetchFail_Cancel ==
    /\ pc = "fetching"
    /\ pc' = "idle"
    /\ ev' = Event("fetch_fail", "none", FALSE, <<>>)
    /\ timers' = {}
    /\ unsub_precise' = NoInstant
    /\ UNCHANGED <<clock, polled_at, today_cached, tomorrow_cached, data,
                   refresh_req, npolls, nticks>>
    /\ UNCHANGED fn_vars

\* the fetch raises (network error, timeout, status /= 200): UpdateFailed
FetchFail ==
    /\ pc = "fetching"
    /\ pc' = "idle"
    /\ ev' = Event("fetch_fail", "none", FALSE, <<>>)
    /\ UNCHANGED <<clock, polled_at, today_cached, tomorrow_cached, data, timers,
                   unsub_precise, refresh_req, npolls, nticks>>
    /\ UNCHANGED fn_vars

\* the end of _async_update_data: schedule the precise refresh and return the
\* payload, which the base coordinator stores in self.data
FinishPoll(payload, rows) ==
    LET s == schedule_precise_refresh(payload, timers, unsub_precise, clock, npolls)
    IN /\ timers' = s.timers
       /\ unsub_precise' = s.unsub
       /\ IF s.outcome = "raised"
          THEN /\ ev' = Event("sched_fail", s.outcome, s.cancelled, rows)
               /\ UNCHANGED data
          ELSE /\ ev' = Event("poll_ok", s.outcome, s.cancelled, rows)
               /\ data' = payload

\* variant: a document that does not parse clears the cached packs
FetchOk_ClearCache(doc) ==
    /\ pc = "fetching"
    /\ pc' = "idle"
    /\ LET p == parse_queue(doc) IN
       IF p.raised
       THEN /\ ev' = Event("parse_fail", "none", FALSE, RawRows(doc))
            /\ today_cached' = NoPack
            /\ tomorrow_cached' = NoPack
            /\ UNCHANGED <<data, timers, unsub_precise>>
       ELSE /\ today_cached' = p.today
            /\ tomorrow_cached' = p.tomorrow
            /\ IF BuildRaises(p.today, clock)
               THEN /\ ev' = Event("build_fail", "none", FALSE, RawRows(doc))
                    /\ UNCHANGED <<data, timers, unsub_precise>>
               ELSE FinishPoll(build_payload(p.today, p.tomorrow, polled_at,
                                             SourceUrl, p.slm, clock),
                               RawRows(doc))
    /\ UNCHANGED <<clock, polled_at, refresh_req, npolls, nticks>>
    /\ UNCHANGED fn_vars

\* the fetch returns doc; parse, cache, build the payload, schedule, return
FetchOk(doc) ==
    /\ pc = "fetching"
    /\ pc' = "idle"
    /\ LET p == parse_queue(doc) IN
       IF p.raised
       THEN /\ ev' = Event("parse_fail", "none", FALSE, RawRows(doc))
            /\ UNCHANGED <<today_cached, tomorrow_cached, data, timers, unsub_precise>>
       ELSE /\ today_cached' = p.today
            /\ tomorrow_cached' = p.tomorrow
            /\ IF BuildRaises(p.today, clock)
               THEN /\ ev' = Event("build_fail", "none", FALSE, RawRows(doc))
                    /\ UNCHANGED <<data, timers, unsub_precise>>
               ELSE FinishPoll(build_payload(p.today, p.tomorrow, polled_at,
                                             SourceUrl, p.slm, clock),
                               RawRows(doc))
    /\ UNCHANGED <<clock, polled_at, refresh_req, npolls, nticks>>
    /\ UNCHANGED fn_vars

\* variant: the fire handler stamps the status with its own time
TickUpdated_Now(d, now) == now

\* updated=self.data.get("updated") if self.data else utcnow()
TickUpdated(d, now) == IF d.some THEN d.updated ELSE now

\* source_url=self.data.get("source") if self.data else ""
TickSource(d) == IF d.some THEN d.source ELSE ""

\* source_last_modified=self.data.get("source_last_modified") if self.data else None
TickLastModified(d) == IF d.some THEN d.source_last_modified ELSE <<>>

\* variant: the listener stays registered after it has run
Fire_KeepListener(t) ==
    /\ t \in timers
    /\ clock' = IF clock < t.at THEN t.at ELSE clock
    /\ timers' = timers
    /\ IF today_cached.some
       THEN IF BuildRaises(today_cached, clock')
            THEN /\ ev' = Event("fire_raised", "none", FALSE, <<>>)
                 /\ UNCHANGED <<data, refresh_req>>
            ELSE /\ data' = build_payload(today_cached, tomorrow_cached,
                                TickUpdated(data, clock'), TickSource(data),
                                TickLastModified(data), clock')
                 /\ refresh_req' = TRUE
                 /\ ev' = Event("fire", "none", FALSE, <<>>)
       ELSE /\ refresh_req' = TRUE
            /\ ev' = Event("fire_nocache", "none", FALSE, <<>>)
            /\ UNCHANGED data
    /\ UNCHANGED <<pc, polled_at, today_cached, tomorrow_cached, unsub_precise,
                   npolls, nticks>>
    /\ UNCHANGED fn_vars

\* the listener t runs: _precise_tick
Fire(t) ==
    /\ t \in timers
    /\ clock' = IF clock < t.at THEN t.at ELSE clock
    /\ timers' = timers \ {t}
    /\ IF today_cached.some
       THEN IF BuildRaises(today_cached, clock')
            THEN /\ ev' = Event("fire_raised", "none", FALSE, <<>>)
                 /\ UNCHANGED <<data, refresh_req>>
            ELSE /\ data' = build_payload(today_cached, tomorrow_cached,
                                TickUpdated(data, clock'), TickSource(data),
                                TickLastModified(data), clock')
                 /\ refresh_req' = TRUE
                 /\ ev' = Event("fire", "none", FALSE, <<>>)
       ELSE /\ refresh_req' = TRUE
            /\ ev' = Event("fire_nocache", "none", FALSE, <<>>)
            /\ UNCHANGED data
    /\ UNCHANGED <<pc, polled_at, today_cached, tomorrow_cached, unsub_precise,
                   npolls, nticks>>
    /\ UNCHANGED fn_vars

\* what a shutdown leaves of the pending listeners
OnShutdown_Keep(tm) == tm

\* a shutdown of the engine cancels any pending timer
OnShutdown(tm) == {}

\* the engine as a whole is cancelled: no poll begins or ends afterwards
Shutdown ==
    /\ pc # "stopped"
    /\ pc' = "stopped"
    /\ timers' = OnShutdown(timers)
    /\ unsub_precise' = IF timers' = {} THEN NoInstant ELSE unsub_precise
    /\ ev' = Event("shutdown", "none", timers # {}, <<>>)
    /\ UNCHANGED <<clock, polled_at, today_cached, tomorrow_cached, data,
                   refresh_req, npolls, nticks>>
    /\ UNCHANGED fn_vars

Next ==
    \/ \E d \in TickSteps : Tick(d)
    \/ PollBegin
    \/ FetchFail
    \/ pc = "fetching" /\ \E doc \in Docs(clock) : FetchOk(doc)
    \/ \E t \in timers : Fire(t)
    \/ Shutdown

Spec == Init /\ [][Next]_vars

----------------------------------------------------------------------------
(* _schedule_precise_refresh as an operation on any payload: the poll in    *)
(* flight is at its last step and hands the scheduler a payload whose date  *)
(* and next-change fields are drawn from well-formed and malformed values.  *)

SchedDates == {isoformat(DateOf(Start)), isoformat(DateOf(Start) - 1),
               <<2025, 13, 1>>, <<2025, 1>>, <<>>}

SchedTimes == {HHMM(j) : j \in {0, 11, 12, 47}} \cup {<<24, 0>>, <<6, 60>>, <<6>>, <<>>}

SchedPayloads ==
    {[NoData EXCEPT !.some = TRUE, !.date = d, !.next_change_at = h,
                    !.updated = Start, !.source = SourceUrl] :
        d \in SchedDates, h \in SchedTimes}

InitSched ==
    /\ clock \in {Start, Start + 7, Start + 5400}
    /\ pc = "fetching"
    /\ polled_at = Start
    /\ today_cached = NoPack
    /\ tomorrow_cached = NoPack
    /\ data = NoData
    /\ \/ timers = {} /\ unsub_precise = NoInstant
       \/ timers = {[id |-> 0, at |-> Start + 2 * 3600]} /\ unsub_precise = 0
    /\ refresh_req = FALSE
    /\ ev = Event("poll_begin", "none", FALSE, <<>>)
    /\ npolls = 1
    /\ nticks = 0
    /\ fn_arg = <<>>
    /\ fn_res = <<>>

ScheduleAny(d) ==
    /\ pc = "fetching"
    /\ pc' = "idle"
    /\ FinishPoll(d, <<>>)
    /\ UNCHANGED <<clock, polled_at, today_cached, tomorrow_cached, refresh_req,
                   npolls, nticks>>
    /\ UNCHANGED fn_vars

NextSched ==
    \/ \E d \in SchedPayloads : ScheduleAny(d)
    \/ \E t \in timers : Fire(t)

SpecSched == InitSched /\ [][NextSched]_vars

----------------------------------------------------------------------------
(* One poll at any time of the day: the coordinator is started (or its poll *)
(* interval elapses) at a wall clock drawn from the night, the morning and  *)
(* the last second of the day, and the fetch of its first poll is in flight.*)

PollClocks ==
    {DateOf(Start) * DaySeconds + x :
        x \in {0, 5400, 2 * 3600 + 30 * 60 + 7, 5 * 3600, 6 * 3600 + 30 * 60,
               DaySeconds - 1}}

InitPoll ==
    /\ clock \in PollClocks
    /\ pc = "fetching"
    /\ polled_at = clock
    /\ today_cached = NoPack
    /\ tomorrow_cached = NoPack
    /\ data = NoData
    /\ timers = {}
    /\ unsub_precise = NoInstant
    /\ refresh_req = FALSE
    /\ ev = Event("poll_begin", "none", FALSE, <<>>)
    /\ npolls = 1
    /\ nticks = 0
    /\ fn_arg = <<>>
    /\ fn_res = <<>>

NextPoll ==
    \/ FetchFail
    \/ pc = "fetching" /\ \E doc \in Docs(clock) : FetchOk(doc)
    \/ \E t \in timers : Fire(t)

SpecPoll == InitPoll /\ [][NextPoll]_vars

----------------------------------------------------------------------------
(* The outage calendar (calendar.py): the intervals of a day's off runs and *)
(* the query over today's and tomorrow's.  An interval is [start, end) in   *)
(* instants; as_utc keeps the number.                                       *)

SlotsPerDay == 48

\* _make_event(day, start_idx, end_idx): start and end of the CalendarEvent
make_event(day, start_idx, end_idx) ==
    LET start_h == start_idx \div 2
        start_m == IF start_idx % 2 /= 0 THEN 30 ELSE 0
        end_h == end_idx \div 2
        end_m == IF end_idx % 2 /= 0 THEN 30 ELSE 0
        start_local == day * DaySeconds + start_h * 3600 + start_m * 60
        end_local == IF end_idx < 48
                     THEN day * DaySeconds + end_h * 3600 + end_m * 60
                     ELSE (day + 1) * DaySeconds
    IN [start |-> start_local, end |-> end_local]

\* for i in range(1, 48): ... and the closing "if current_state == 'off'"
RECURSIVE DayEventsFrom(_, _, _, _, _)
DayEventsFrom(base_day, halfhours, i, current_state, start_idx) ==
    IF i >= 48
    THEN IF current_state = "off" THEN <<make_event(base_day, start_idx, 48)>> ELSE <<>>
    ELSE IF halfhours[i + 1] /= current_state
         THEN (IF current_state = "off"
               THEN <<make_event(base_day, start_idx, i)>> ELSE <<>>)
              \o DayEventsFrom(base_day, halfhours, i + 1, halfhours[i + 1], i)
         ELSE DayEventsFrom(base_day, halfhours, i + 1, current_state, start_idx)

\* variant: the run that is still off at the end of the day is not closed
build_day_events_NoTail(date_str, halfhours) ==
    IF date_str = <<>> \/ halfhours = <<>> \/ Len(halfhours) /= 48 THEN <<>>
    ELSE LET all == DayEventsFrom(fromisoformat(date_str).day, halfhours, 1,
                                  halfhours[1], 0)
         IN IF halfhours[48] = "off" THEN SubSeq(all, 1, Len(all) - 1) ELSE all

\* _build_day_events(date_str, halfhours); date_str is None or an ISO date
build_day_events(date_str, halfhours) ==
    IF date_str = <<>> \/ halfhours = <<>> \/ Len(halfhours) /= 48 THEN <<>>
    ELSE DayEventsFrom(fromisoformat(date_str).day, halfhours, 1, halfhours[1], 0)

\* variant: an interval that touches the window at a boundary is kept
get_events_Closed(d, start_date, end_date) ==
    LET events == build_day_events(d.date, d.today_48half)
                    \o build_day_events(d.tomorrow_date, d.tomorrow_48half)
        Overlaps(e) == e.start <= end_date /\ e.end >= start_date
    IN SelectSeq(events, Overlaps)

\* async_get_events(hass, start_date, end_date) over coordinator.data = d
get_events(d, start_date, end_date) ==
    LET events == build_day_events(d.date, d.today_48half)
                    \o build_day_events(d.tomorrow_date, d.tomorrow_48half)
        Overlaps(e) == e.start < end_date /\ e.end > start_date
    IN SelectSeq(events, Overlaps)

----------------------------------------------------------------------------
(* The pure functions applied on their own: the arguments are drawn from    *)
(* families of grids, hour rows and query windows, one step applies the     *)
(* function named by fn_arg.f.                                              *)

Other(s) == IF s = "on" THEN "off" ELSE "on"

GridCuts == {0, 1, 12, 13, 47, 48}

\* a 48-slot grid with state s in slots a..b-1 and c..47 and the other state elsewhere
Grid(a, b, c, s) ==
    [k \in 1..SlotsPerDay |-> IF (a < k /\ k <= b) \/ k > c THEN s ELSE Other(s)]

Grids == {Grid(a, b, c, s) : a \in GridCuts, b \in GridCuts, c \in GridCuts,
                             s \in {"on", "off"}}

\* cell classes as the page carries them, "zz" and "" being no known class
ClassCodes == {"on", "off", "f4", "f5", "zz", ""}

\* a row of 24 cells: c1 before hour p, c2 at hour p, c3 after it
ClassRow(c1, c2, c3, p) ==
    [i \in 1..HoursPerDay |-> IF i - 1 < p THEN c1 ELSE IF i - 1 = p THEN c2 ELSE c3]

ClassRows == {ClassRow(c1, c2, c3, p) : c1 \in ClassCodes, c2 \in ClassCodes,
                                        c3 \in ClassCodes, p \in {0, 11, 23}}

\* grids of the calendar queries: off 00:00-06:00, no outage, off all day,
\* off 00:30-06:00 and from 23:30, off 06:00-06:30
EventGrids == {Grid(0, 12, 48, "off"), Grid(0, 0, 48, "off"), Grid(0, 48, 48, "off"),
               Grid(1, 12, 47, "off"), Grid(12, 13, 48, "off")}

\* a published status with the given grids; <<>> for no tomorrow
StatusOf(day, today_half, tomorrow_half) ==
    [NoData EXCEPT !.some = TRUE, !.date = isoformat(day),
                   !.today_48half = today_half,
                   !.has_tomorrow = tomorrow_half /= <<>>,
                   !.tomorrow_date = IF tomorrow_half /= <<>> THEN isoformat(day + 1)
                                     ELSE <<>>,
                   !.tomorrow_48half = tomorrow_half]

\* window bounds around the two days: 00:00, 00:30, 06:00, 12:00 of day and day + 1, 00:00 of day + 2
WindowBounds(day) ==
    {(day + k) * DaySeconds + h : k \in {0, 1}, h \in {0, 1800, 6 * 3600, 12 * 3600}}
    \cup {(day + 2) * DaySeconds}

FnInputs ==
    {[f |-> "next_change_idx", series |-> g, idx |-> i] :
        g \in Grids, i \in 0..(SlotsPerDay - 1)}
    \cup {[f |-> "halfhours", cells |-> r] : r \in ClassRows}
    \cup {[f |-> "build_day_events", date |-> isoformat(day), series |-> g] :
        g \in Grids, day \in {1, DateOf(Start)}}
    \cup {[f |-> "get_events", d |-> StatusOf(DateOf(Start), g, u), start |-> a, end |-> b] :
        g \in EventGrids, u \in EventGrids \cup {<<>>},
        a \in WindowBounds(DateOf(Start)), b \in WindowBounds(DateOf(Start))}
    \cup {[f |-> "get_events", d |-> NoData, start |-> Start, end |-> Start + DaySeconds]}

InitFn ==
    /\ clock = Start
    /\ pc = "idle"
    /\ polled_at = NoInstant
    /\ today_cached = NoPack
    /\ tomorrow_cached = NoPack
    /\ data = NoData
    /\ timers = {}
    /\ unsub_precise = NoInstant
    /\ refresh_req = FALSE
    /\ ev = Event("init", "none", FALSE, <<>>)
    /\ npolls = 0
    /\ nticks = 0
    /\ fn_arg \in FnInputs
    /\ fn_res = <<>>

coord_vars == <<clock, pc, polled_at, today_cached, tomorrow_cached, data, timers,
                unsub_precise, refresh_req, ev, npolls, nticks>>

ApplyNextChangeIdx ==
    /\ fn_arg.f = "next_change_idx" /\ fn_res = <<>>
    /\ fn_res' = <<next_change_idx(fn_arg.series, fn_arg.idx)>>
    /\ UNCHANGED <<coord_vars, fn_arg>>

\* lines 252-260 of parse_table on a row of cells
ApplyHalfHours ==
    /\ fn_arg.f = "halfhours" /\ fn_res = <<>>
    /\ fn_res' = <<HalfHours(HourClasses(TakeCells(fn_arg.cells)))>>
    /\ UNCHANGED <<coord_vars, fn_arg>>

ApplyBuildDayEvents ==
    /\ fn_arg.f = "build_day_events" /\ fn_res = <<>>
    /\ fn_res' = <<build_day_events(fn_arg.date, fn_arg.series)>>
    /\ UNCHANGED <<coord_vars, fn_arg>>

ApplyGetEvents ==
    /\ fn_arg.f = "get_events" /\ fn_res = <<>>
    /\ fn_arg.start < fn_arg.end
    /\ fn_res' = <<get_events(fn_arg.d, fn_arg.start, fn_arg.end)>>
    /\ UNCHANGED <<coord_vars, fn_arg>>

NextFn ==
    \/ ApplyNextChangeIdx
    \/ ApplyHalfHours
    \/ ApplyBuildDayEvents
    \/ ApplyGetEvents

SpecFn == InitFn /\ [][NextFn]_vars

----------------------------------------------------------------------------
(* Properties *)

PollEndKinds == {"parse_fail", "build_fail", "sched_fail", "poll_ok"}
FireKinds == {"fire", "fire_raised", "fire_nocache"}

\* start of the half-hour slot that contains t
SlotStart(t) == t - (t % SlotSeconds)

\* The schedule the cached Timeline describes, as a function of the instant:
\* slot k of today's grid starts at today's date + k half-hours, slot k of
\* tomorrow's grid one day later.  HorizonSlots is the set of slot starts the
\* Timeline defines, HorizonState the state of the slot that starts at t.
HorizonSlots ==
    {today_cached.day * DaySeconds + (k - 1) * SlotSeconds :
        k \in 1..Len(today_cached.hh)}
    \cup {(today_cached.day + 1) * DaySeconds + (k - 1) * SlotSeconds :
        k \in 1..Len(tomorrow_cached.hh)}

HorizonState(t) ==
    LET k == (t - today_cached.day * DaySeconds) \div SlotSeconds IN
    IF k < Len(today_cached.hh) /\ t < (today_cached.day + 1) * DaySeconds
    THEN today_cached.hh[k + 1]
    ELSE tomorrow_cached.hh[k - 2 * HoursPerDay + 1]

\* the earliest slot start after the current slot whose state is in states
HorizonNext(states) ==
    LET later == {t \in HorizonSlots : t > SlotStart(clock) /\ HorizonState(t) \in states}
    IN IF later = {} THEN NoInstant
       ELSE CHOOSE t \in later : \A u \in later : t <= u

\* C1: at most one precise-refresh timer is pending, and it is the one the
\* coordinator's handle cancels, so a superseded timer cannot fire.
C1_SingleTimer ==
    /\ Cardinality(timers) <= 1
    /\ \A t \in timers : t.id = unsub_precise

C1_Witness ==
    /\ ev.kind = "poll_ok"
    /\ ev.cancelled
    /\ ev.sched = "armed"
    /\ Cardinality(timers) = 1

\* C2: when a successful poll arms the timer, the fire instant is the earliest
\* instant after the current slot at which the Timeline's state differs from
\* the current state.
C2_ArmedAtNextTransition ==
    (ev.kind = "poll_ok" /\ ev.sched = "armed") =>
        \A t \in timers :
            t.at = HorizonNext({"on", "off"} \ {data.now_status})

\* C3: a poll that ends in failure leaves both cached packs and the
\* published status as they were.
C3_FailedPollKeepsCache ==
    [][(pc = "fetching" /\ ev'.kind \in PollEndKinds \ {"poll_ok"}) =>
          /\ today_cached' = today_cached
          /\ tomorrow_cached' = tomorrow_cached
          /\ data' = data]_vars

\* C4: a poll that fails in the fetch step leaves the cached Timeline, the
\* pending timer with its fire instant, the handle and the status unchanged.
C4_FetchFailFrame ==
    [][(pc = "fetching" /\ ev'.kind = "fetch_fail") =>
          /\ today_cached' = today_cached
          /\ tomorrow_cached' = tomorrow_cached
          /\ timers' = timers
          /\ unsub_precise' = unsub_precise
          /\ data' = data]_vars

C4_Witness ==
    /\ ev.kind = "fetch_fail"
    /\ timers /= {}
    /\ today_cached.some

\* C5: a row of more than 24 cells is parsed from its first 24 cells, and a
\* row of fewer than 24 cells makes the poll fail in the parse.
C5_RowLength ==
    ev.kind \in PollEndKinds =>
        \A i \in 1..Len(ev.rows) :
            LET pack == IF i = 1 THEN today_cached ELSE tomorrow_cached IN
            /\ Len(ev.rows[i]) < HoursPerDay => ev.kind = "parse_fail"
            /\ (Len(ev.rows[i]) > HoursPerDay /\ ev.kind /= "parse_fail") =>
                  pack.hc = HourClasses(SubSeq(ev.rows[i], 1, HoursPerDay))

\* C6: every day schedule in the cache or in the published status has 24 hour
\* classes and 48 half-hour states.
C6_Lengths ==
    /\ today_cached.some =>
          Len(today_cached.hc) = HoursPerDay /\ Len(today_cached.hh) = 2 * HoursPerDay
    /\ tomorrow_cached.some =>
          Len(tomorrow_cached.hc) = HoursPerDay /\ Len(tomorrow_cached.hh) = 2 * HoursPerDay
    /\ data.some =>
          Len(data.today_24h_classes) = HoursPerDay /\ Len(data.today_48half) = 2 * HoursPerDay
    /\ (data.some /\ data.has_tomorrow) =>
          /\ Len(data.tomorrow_24h_classes) = HoursPerDay
          /\ Len(data.tomorrow_48half) = 2 * HoursPerDay

\* C7: a next_on_at / next_off_at reported on today's date is the start of the
\* first slot after the current one, in today's rest followed by tomorrow,
\* that has the target state.
C7_NextAtIsNext ==
    (ev.kind \in {"poll_ok", "fire"} /\ DateOf(clock) = today_cached.day) =>
        /\ data.next_on_at /= NoInstant => data.next_on_at = HorizonNext({"on"})
        /\ data.next_off_at /= NoInstant => data.next_off_at = HorizonNext({"off"})

\* C8: the status the fire handler publishes keeps updated, source and
\* source_last_modified of the status published before the fire.
C8_FireKeepsMetadata ==
    [][ev'.kind = "fire" =>
          /\ data.some
          /\ data'.updated = data.updated
          /\ data'.source = data.source
          /\ data'.source_last_modified = data.source_last_modified]_vars

C8_Witness ==
    /\ ev.kind = "fire"
    /\ data.updated /= clock
    /\ data.source_last_modified /= <<>>

\* C9: every timer fire requests a refresh, and a successful poll whose
\* status has a next change leaves a timer armed.
C9_FireRequestsRefresh ==
    [][/\ ev'.kind \in FireKinds => refresh_req'
       /\ (ev'.kind = "poll_ok" /\ data'.next_change_at /= <<>>) =>
             (timers' /= {} /\ unsub_precise' /= NoInstant)]_vars

\* C10: when computing or arming the schedule fails, the poll still returns
\* its payload and no timer is pending.
C10_SchedulingErrorContained ==
    ev.sched \in {"caught", "raised"} =>
        /\ ev.kind = "poll_ok"
        /\ data.some
        /\ timers = {}
        /\ unsub_precise = NoInstant

C10_Witness ==
    /\ ev.sched = "caught"
    /\ ev.cancelled
    /\ data.some
    /\ ~ValidYMD(data.date)

\* C11: once the engine is shut down no timer is pending, so none can fire:
\* a timer pending at the shutdown is cancelled by it.
C11_ShutdownCancelsTimer ==
    pc = "stopped" => timers = {} /\ unsub_precise = NoInstant

\* a shutdown met a pending timer and cancelled it
C11_Witness == ev.kind = "shutdown" /\ ev.cancelled /\ timers = {}

\* C12: the timer a successful poll arms for next-change time HH:MM is at HH:MM
\* on the poll's today date when that instant is strictly after the wall
\* clock, and at HH:MM one calendar day later otherwise.
C12_CandidateInstant ==
    (ev.kind = "poll_ok" /\ ev.sched = "armed") =>
        \A t \in timers :
            LET hm == data.next_change_at
                at == today_cached.day * DaySeconds + (hm[1] * 60 + hm[2]) * 60
            IN t.at = IF at > clock THEN at ELSE at + DaySeconds

\* a poll at 06:30 with next change 06:00 armed the timer for 06:00 of the next day
C12_Witness ==
    /\ ev.kind = "poll_ok" /\ ev.sched = "armed"
    /\ data.next_change_at = <<6, 0>>
    /\ HourOf(clock) = 6 /\ MinuteOf(clock) = 30
    /\ today_cached.day = DateOf(clock)
    /\ \E t \in timers : t.at = (DateOf(clock) + 1) * DaySeconds + 6 * 3600

\* C13: on a 48-slot grid next_change_idx(idx) is absent exactly when all
\* slots share one state; an index j it returns differs from idx, holds the
\* other state, and every slot from idx+1 circularly up to j (excluded) holds
\* the state of idx.
C13_NextChangeIdx ==
    (fn_arg /= <<>> /\ fn_arg.f = "next_change_idx" /\ fn_res /= <<>>) =>
        LET g == fn_arg.series
            idx == fn_arg.idx
            j == fn_res[1]
        IN /\ (j = NoInstant) <=> (\A k \in 1..SlotsPerDay : g[k] = g[1])
           /\ j /= NoInstant =>
                /\ j \in 0..(SlotsPerDay - 1)
                /\ j /= idx
                /\ g[j + 1] /= g[idx + 1]
                /\ \A step \in 1..(SlotsPerDay - 1) :
                      step < (j - idx + SlotsPerDay) % SlotsPerDay =>
                          g[((idx + step) % SlotsPerDay) + 1] = g[idx + 1]

\* the scan wrapped past midnight: the change found lies before idx
C13_Witness ==
    /\ fn_arg /= <<>> /\ fn_arg.f = "next_change_idx" /\ fn_res /= <<>>
    /\ fn_res[1] /= NoInstant
    /\ fn_res[1] < fn_arg.idx
    /\ fn_arg.idx = SlotsPerDay - 1

\* C14: the intervals _build_day_events makes of a 48-slot grid, expanded
\* again (a slot is off exactly when its start lies inside an interval), give
\* the grid back; they stay inside the day, and a run that is off at the end
\* of the day ends at midnight of the following day.
C14_EventsRoundTrip ==
    (fn_arg /= <<>> /\ fn_arg.f = "build_day_events" /\ fn_res /= <<>>) =>
        LET g == fn_arg.series
            day == DayNumber(fn_arg.date)
            events == fn_res[1]
            SlotAt(k) == day * DaySeconds + k * SlotSeconds
            Inside(k) == \E n \in 1..Len(events) :
                            events[n].start <= SlotAt(k) /\ SlotAt(k) < events[n].end
        IN /\ \A k \in 0..(SlotsPerDay - 1) : (g[k + 1] = "off") <=> Inside(k)
           /\ \A n \in 1..Len(events) :
                 /\ day * DaySeconds <= events[n].start
                 /\ events[n].start < events[n].end
                 /\ events[n].end <= (day + 1) * DaySeconds
           /\ g[SlotsPerDay] = "off" =>
                 events[Len(events)].end = (day + 1) * DaySeconds

\* two outages in the day, the second one lasting to midnight
C14_Witness ==
    /\ fn_arg /= <<>> /\ fn_arg.f = "build_day_events" /\ fn_res /= <<>>
    /\ fn_arg.series[SlotsPerDay] = "off"
    /\ fn_arg.series[1] = "on"
    /\ Len(fn_res[1]) = 2
    /\ fn_res[1][2].end - fn_res[1][2].start = SlotSeconds

\* the maximal off runs of a day's grid as intervals; none without a date
OffRuns(date_str, g) ==
    IF date_str = <<>> THEN {}
    ELSE LET day == DayNumber(date_str) IN
         {[start |-> day * DaySeconds + a * SlotSeconds,
           end |-> day * DaySeconds + b * SlotSeconds] :
            <<a, b>> \in {x \in (0..(SlotsPerDay - 1)) \X (1..SlotsPerDay) :
                            /\ x[1] < x[2]
                            /\ \A k \in (x[1] + 1)..x[2] : g[k] = "off"
                            /\ x[1] = 0 \/ g[x[1]] /= "off"
                            /\ x[2] = SlotsPerDay \/ g[x[2] + 1] /= "off"}}

\* C15: async_get_events returns exactly the outage intervals of today and
\* tomorrow that start before the window's end and end after its start, in
\* their order: an interval that only touches the window is left out.
C15_EventsInWindow ==
    (fn_arg /= <<>> /\ fn_arg.f = "get_events" /\ fn_res /= <<>>) =>
        LET d == fn_arg.d
            r == fn_res[1]
            expected == {e \in OffRuns(d.date, d.today_48half)
                                  \cup OffRuns(d.tomorrow_date, d.tomorrow_48half) :
                            e.start < fn_arg.end /\ e.end > fn_arg.start}
        IN /\ {r[n] : n \in 1..Len(r)} = expected
           /\ Len(r) = Cardinality(expected)
           /\ \A n \in 1..Len(r), m \in 1..Len(r) : n < m => r[n].start < r[m].start

\* outages 00:00-06:00 on both days and the window [06:00, 00:00 of the next
\* day): both intervals touch the window and neither is returned
C15_Witness ==
    /\ fn_arg /= <<>> /\ fn_arg.f = "get_events" /\ fn_res /= <<>>
    /\ fn_arg.d.today_48half = Grid(0, 12, 48, "off")
    /\ fn_arg.d.tomorrow_48half = Grid(0, 12, 48, "off")
    /\ fn_arg.start = DateOf(Start) * DaySeconds + 6 * 3600
    /\ fn_arg.end = (DateOf(Start) + 1) * DaySeconds
    /\ fn_res[1] = <<>>

\* the two half-hour states of an hour class; a code off the list is on, on
ClassStates(c) ==
    CASE c = "on" -> <<"on", "on">>
      [] c = "off" -> <<"off", "off">>
      [] c = "f4" -> <<"off", "on">>
      [] c = "f5" -> <<"on", "off">>
      [] OTHER -> <<"on", "on">>

\* C16: the half-hour grid of 24 hour classes has 48 slots, and slots 2h and
\* 2h+1 are the pair of class h: on/on, off/off, off/on for f4, on/off for
\* f5, and on/on for a code that is not recognised.
C16_HalfHourMapping ==
    (fn_arg /= <<>> /\ fn_arg.f = "halfhours" /\ fn_res /= <<>>) =>
        LET cells == fn_arg.cells
            hh == fn_res[1]
        IN /\ Len(hh) = SlotsPerDay
           /\ \A h \in 0..(HoursPerDay - 1) :
                 <<hh[2 * h + 1], hh[2 * h + 2]>> = ClassStates(cells[h + 1])

\* a row with both half-outage classes and an unknown code was expanded
C16_Witness ==
    /\ fn_arg /= <<>> /\ fn_arg.f = "halfhours" /\ fn_res /= <<>>
    /\ fn_arg.cells[1] = "f4"
    /\ fn_arg.cells[12] = "zz"
    /\ fn_arg.cells[24] = "f5"
    /\ fn_res[1][1] = "off" /\ fn_res[1][2] = "on"

\* C17: the slot index of every published status is the half-hour of the
\* wall clock when the wall-clock date is the Timeline's today date and 0
\* when it is not; it lies in 0..47.
C17_SlotIndex ==
    ev.kind \in {"poll_ok", "fire"} =>
        /\ data.now_halfhour_index =
              IF DateOf(clock) = today_cached.day
              THEN (clock % DaySeconds) \div SlotSeconds ELSE 0
        /\ data.now_halfhour_index \in 0..(SlotsPerDay - 1)

\* a fire after midnight with tomorrow's schedule cached published index 0
C17_Witness ==
    /\ ev.kind = "fire"
    /\ tomorrow_cached.some
    /\ DateOf(clock) = today_cached.day + 1
    /\ tomorrow_cached.day = DateOf(clock)
    /\ data.now_halfhour_index = 0

\* C18: every next_on_at and next_off_at of a published status has local
\* minute 0 or 30 and zero seconds, whatever the wall clock it was computed at.
C18_NextAtAligned ==
    data.some =>
        \A x \in {data.next_on_at, data.next_off_at} :
            x /= NoInstant => MinuteOf(x) \in {0, SlotMinutes} /\ SecondOf(x) = 0

\* a status computed at a wall clock with seconds reports both instants
C18_Witness ==
    /\ ev.kind = "poll_ok"
    /\ SecondOf(clock) /= 0
    /\ data.next_on_at /= NoInstant
    /\ data.next_off_at /= NoInstant

\* C19: right after a successful poll no timer is pending when all of today's
\* slots share one state, and exactly one is pending otherwise; a timer of an
\* earlier poll does not outlive a poll without a next change.
C19_IdleOrScheduled ==
    ev.kind = "poll_ok" =>
        IF \A k \in 1..Len(today_cached.hh) : today_cached.hh[k] = today_cached.hh[1]
        THEN timers = {} /\ unsub_precise = NoInstant
        ELSE Cardinality(timers) = 1 /\ \A t \in timers : t.id = unsub_precise

\* the timer of an earlier poll was cancelled by a poll of a constant day
C19_Witness ==
    /\ ev.kind = "poll_ok"
    /\ ev.sched = "idle"
    /\ ev.cancelled
    /\ timers = {}

\* C20: a timer is armed for an instant strictly later than the wall clock at
\* the moment of arming, whatever date the parsed table carries.
C20_ArmedInFuture ==
    (ev.kind = "poll_ok" /\ ev.sched = "armed") => \A t \in timers : t.at > clock

\* C21: when a successful poll whose today date is the wall-clock date arms
\* a timer, the fire instant is the instant the same status reports for the
\* next occurrence of the opposite state: next_off_at when the status is on,
\* next_on_at when it is off.
C21_ArmedAtReportedInstant ==
    (ev.kind = "poll_ok" /\ ev.sched = "armed" /\ today_cached.day = DateOf(clock)) =>
        \A t \in timers :
            t.at = IF data.now_status = "on" THEN data.next_off_at ELSE data.next_on_at

\* C22: whenever a status is published, its today and tomorrow dates and
\* half-hour grids are those of the cached Timeline.
C22_StatusMatchesCache ==
    data.some =>
        /\ data.date = isoformat(today_cached.day)
        /\ data.today_48half = today_cached.hh
        /\ data.has_tomorrow = tomorrow_cached.some
        /\ tomorrow_cached.some => data.tomorrow_date = isoformat(tomorrow_cached.day)
        /\ data.tomorrow_48half = tomorrow_cached.hh

\* C23: a timer fire leaves both cached packs as they were and no timer
\* pending, and no step other than a successful poll arms one: from a fire to
\* the next successful poll no timer is pending.
C23_FireArmsNothing ==
    [][/\ ev'.kind \in FireKinds =>
             /\ today_cached' = today_cached
             /\ tomorrow_cached' = tomorrow_cached
             /\ timers' = {}
       /\ (timers = {} /\ ev'.kind /= "poll_ok") => timers' = {}]_vars

\* time has passed since a fire and no poll began: the cached schedule has a
\* next change and no timer is pending for it
C23_Witness ==
    /\ ev.kind = "tick"
    /\ refresh_req
    /\ unsub_precise /= NoInstant
    /\ timers = {}
    /\ data.some /\ data.next_change_at /= <<>>

\* C24: while a timer is pending the cached Timeline exists, and no fire takes
\* the branch of _precise_tick that publishes nothing for want of a cache.
C24_TimerImpliesCache ==
    /\ timers /= {} => today_cached.some
    /\ ev.kind /= "fire_nocache"

\* a document that did not parse left the timer pending and the cache in place
C24_Witness ==
    /\ ev.kind = "parse_fail"
    /\ timers /= {}
    /\ today_cached.some

====
